---------------------------- MODULE Spec2Model ----------------------------
(***************************************************************************)
(* Model of session-dialog: the base64 transport codec and the exit-code    *)
(* mapping (src/src/lib.rs), the privileged spawner show_dialog             *)
(* (src/src/lib.rs), the surface entry point (src/src/bin/dialog.rs) and    *)
(* the confirmation state machine with its two process-wide cells CONFIG    *)
(* and EXIT_CODE (src/src/ui.rs).                                           *)
(*                                                                          *)
(* Strings that are only compared are TLA+ strings; base64 tokens and byte  *)
(* buffers are sequences of byte values (a character is its ASCII code).    *)
(***************************************************************************)
EXTENDS Integers, Sequences, FiniteSets, TLC

VARIABLES
    \* ---- codec / exit-code mapping (pure functions applied to drawn inputs)
    mode,        \* the function applied: "encode", "decode", "map", "project"
    data,        \* &[u8] given to base64_encode
    token,       \* the base64 text (sequence of ASCII codes)
    decoded,     \* Result<Vec<u8>, &str> of base64_decode
    status,      \* an integer exit status given to the two mappings
    mapped,      \* what show_dialog and show_dialog_inline make of status
    codecPc,     \* "start", "encoded", "decoded", "mapped", "projected", "off"
    projected,   \* a descriptor and what title, subtitle and detail give for it
    \* ---- show_dialog and the child process it spawns
    sd,          \* the caller's side of one show_dialog call (record)
    child,       \* the spawned surface process (record)
    \* ---- ui::run: the process-wide cells and the in-process calls
    CONFIG,      \* static CONFIG: OnceLock<DialogConfig>
    EXIT_CODE,   \* static EXIT_CODE: AtomicI32
    procEnv,     \* the environment of the process that runs the surface inline
    now,         \* wall clock, whole seconds
    calls,       \* per call of show_dialog_inline: its record
    overlapped   \* history: two calls were in progress at the same time

vars == <<mode, data, token, decoded, status, mapped, codecPc, projected, sd, child,
          CONFIG, EXIT_CODE, procEnv, now, calls, overlapped>>

codecVars == <<mode, data, token, decoded, status, mapped, codecPc, projected>>
spawnVars == <<sd, child>>
uiVars    == <<CONFIG, EXIT_CODE, procEnv, now, calls, overlapped>>

-----------------------------------------------------------------------------
(* Bounds of the model *)

MaxDataLen  == 4    \* longest byte sequence given to base64_encode
MaxTokenLen == 4    \* longest token given to base64_decode
MaxStatus   == 5    \* exit statuses 0..MaxStatus (and a few far ones) are mapped
MaxCalls    == 2    \* calls of show_dialog_inline / show_dialog_async in one process
MaxTimeout  == 2    \* timeout_secs is None or Some(1..MaxTimeout)
MaxTime     == 2    \* the clock runs from 0 to MaxTime seconds
MaxArgs     == 3    \* arguments after the program name given to session-dialog

-----------------------------------------------------------------------------
(* Results *)

Ok(bytes) == [ok |-> TRUE,  val |-> bytes, err |-> ""]
Err(e)    == [ok |-> FALSE, val |-> <<>>,  err |-> e]
NoResult  == [ok |-> FALSE, val |-> <<>>,  err |-> "not run"]

RECURSIVE Pow2(_)
Pow2(n) == IF n = 0 THEN 1 ELSE 2 * Pow2(n - 1)

-----------------------------------------------------------------------------
(* base64: lib.rs 255-353 *)

\* b"ABC...XYZabc...xyz0123456789+/" as ASCII codes, 1-based
ALPHABET ==
    [i \in 1..64 |->
        IF i <= 26 THEN 64 + i
        ELSE IF i <= 52 THEN 96 + (i - 26)
        ELSE IF i <= 62 THEN 47 + (i - 52)
        ELSE IF i = 63 THEN 43 ELSE 47]

PadChar == 61   \* b'='

\* pending: u32 is kept as two 16-bit halves so that the 32-bit truncation of
\* `pending << 8` is computed exactly.
U32Zero == [hi |-> 0, lo |-> 0]

\* (self.pending << 8) | byte as u32
Shl8Or(p, byte) ==
    [hi |-> (p.hi % 256) * 256 + (p.lo \div 256),
     lo |-> (p.lo % 256) * 256 + byte]

\* ((self.pending >> n) & 0x3F), n <= 16
ShrAnd3F(p, n) == ((((p.hi % 64) * 65536) + p.lo) \div Pow2(n)) % 64

\* ((self.pending << s) & 0x3F), s <= 6
ShlAnd3F(p, s) == ((p.lo % 64) * Pow2(s)) % 64

\* Base64Encoder::new
EncoderNew == [buf |-> <<>>, pending |-> U32Zero, pending_bits |-> 0]

\* Base64Encoder::flush_pending: while pending_bits >= 6 { ... }
RECURSIVE flush_pending(_)
flush_pending(e) ==
    IF e.pending_bits >= 6
    THEN LET bits == e.pending_bits - 6
             idx  == ShrAnd3F(e.pending, bits)
         IN  flush_pending([e EXCEPT !.pending_bits = bits,
                                     !.buf = Append(e.buf, ALPHABET[idx + 1])])
    ELSE e

\* one iteration of the loop of Base64Encoder::write
WriteByte(e, byte) ==
    flush_pending([e EXCEPT !.pending = Shl8Or(e.pending, byte),
                            !.pending_bits = e.pending_bits + 8])

\* Base64Encoder::write (write_all)
RECURSIVE EncoderWrite(_, _)
EncoderWrite(e, bytes) ==
    IF bytes = <<>> THEN e
    ELSE EncoderWrite(WriteByte(e, Head(bytes)), Tail(bytes))

\* the number of '=' pushed by drop: (3 - (pending_bits / 8) % 3) % 3
DropPadding(pending_bits) == (3 - ((pending_bits \div 8) % 3)) % 3

\* impl Drop for Base64Encoder
EncoderDrop(e) ==
    IF e.pending_bits > 0
    THEN LET shift == 6 - e.pending_bits
             idx   == ShlAnd3F(e.pending, shift)
             b1    == Append(e.buf, ALPHABET[idx + 1])
         IN  b1 \o [i \in 1..DropPadding(e.pending_bits) |-> PadChar]
    ELSE e.buf

base64_encode(bytes) == EncoderDrop(EncoderWrite(EncoderNew, bytes))

\* decode_char with the catch-all arm giving Ok(0) instead of Err
decode_char_lenient(c) ==
    IF c >= 65 /\ c <= 90 THEN c - 65
    ELSE IF c >= 97 /\ c <= 122 THEN c - 97 + 26
    ELSE IF c >= 48 /\ c <= 57 THEN c - 48 + 52
    ELSE IF c = 43 THEN 62
    ELSE IF c = 47 THEN 63
    ELSE 0

\* decode_char without the arm b'=' => Ok(0): '=' is an invalid character
decode_char_no_pad(c) ==
    IF c >= 65 /\ c <= 90 THEN c - 65
    ELSE IF c >= 97 /\ c <= 122 THEN c - 97 + 26
    ELSE IF c >= 48 /\ c <= 57 THEN c - 48 + 52
    ELSE IF c = 43 THEN 62
    ELSE IF c = 47 THEN 63
    ELSE -1

\* decode_char: Ok(value) as a number 0..63, Err as -1
decode_char(c) ==
    IF c >= 65 /\ c <= 90 THEN c - 65
    ELSE IF c >= 97 /\ c <= 122 THEN c - 97 + 26
    ELSE IF c >= 48 /\ c <= 57 THEN c - 48 + 52
    ELSE IF c = 43 THEN 62
    ELSE IF c = 47 THEN 63
    ELSE IF c = PadChar THEN 0
    ELSE -1

\* the body of `for chunk in bytes.chunks(4)`, from the chunk starting at s[1]
RECURSIVE DecodeChunks(_, _)
DecodeChunks(s, result) ==
    IF s = <<>> THEN Ok(result)
    ELSE IF Len(s) < 4 THEN Err("invalid base64 length")
    ELSE LET a == decode_char(s[1])
             b == decode_char(s[2])
             c == decode_char(s[3])
             d == decode_char(s[4])
         IN  IF a < 0 \/ b < 0 \/ c < 0 \/ d < 0
             THEN Err("invalid base64 character")
             ELSE LET r1 == Append(result, ((a * 4) % 256) + (b \div 16))
                      r2 == IF s[3] # PadChar
                            THEN Append(r1, ((b * 16) % 256) + (c \div 4))
                            ELSE r1
                      r3 == IF s[4] # PadChar
                            THEN Append(r2, ((c * 64) % 256) + d)
                            ELSE r2
                  IN  DecodeChunks(SubSeq(s, 5, Len(s)), r3)

base64_decode(s) == DecodeChunks(s, <<>>)

-----------------------------------------------------------------------------
(* DialogResult and the exit-code mappings: lib.rs 182-192, 228-233 *)

DialogResult == {"Confirmed", "Denied", "Timeout", "Error"}

\* Option<i32> of ExitStatus::code()
SomeCode(n) == [some |-> TRUE, code |-> n]
NoCode      == [some |-> FALSE, code |-> 0]

\* ExitStatusMap reading a missing code as 0 (status.code().unwrap_or(0))
ExitStatusMapUnwrap(code) ==
    IF ~code.some \/ code.code = 0 THEN "Confirmed"
    ELSE IF code.code = 1 THEN "Denied"
    ELSE IF code.code = 2 THEN "Timeout"
    ELSE "Error"

\* show_dialog: match status.code() { Some(0) => .., Some(1) => .., Some(2) => .., _ => Error }
ExitStatusMap(code) ==
    IF code.some /\ code.code = 0 THEN "Confirmed"
    ELSE IF code.some /\ code.code = 1 THEN "Denied"
    ELSE IF code.some /\ code.code = 2 THEN "Timeout"
    ELSE "Error"

\* io::Result<ExitStatus> of Command::status()
SpawnOk(code) == [spawned |-> TRUE,  code |-> code]
SpawnErr      == [spawned |-> FALSE, code |-> NoCode]

\* SpawnResultMap with a failed spawn read as a denial (Err(_) => Denied)
SpawnResultMapDenied(result) ==
    IF result.spawned THEN ExitStatusMap(result.code) ELSE "Denied"

\* show_dialog: match result { Ok(status) => .., Err(_) => Error }
SpawnResultMap(result) ==
    IF result.spawned THEN ExitStatusMap(result.code) ELSE "Error"

\* InlineMap with the default arm giving Denied (_ => Denied)
InlineMapLenient(exit_code) ==
    IF exit_code = 0 THEN "Confirmed"
    ELSE IF exit_code = 1 THEN "Denied"
    ELSE IF exit_code = 2 THEN "Timeout"
    ELSE "Denied"

\* show_dialog_inline: match exit_code { 0 => .., 1 => .., 2 => .., _ => Error }
InlineMap(exit_code) ==
    IF exit_code = 0 THEN "Confirmed"
    ELSE IF exit_code = 1 THEN "Denied"
    ELSE IF exit_code = 2 THEN "Timeout"
    ELSE "Error"

-----------------------------------------------------------------------------
(* Inputs of the codec specification *)

RECURSIVE SeqsUpTo(_, _)
SeqsUpTo(S, n) ==
    IF n = 0 THEN {<<>>}
    ELSE LET shorter == SeqsUpTo(S, n - 1)
         IN  shorter \cup {Append(s, x) : s \in shorter, x \in S}

\* byte values given to the encoder: both ends, the sign bit, a letter
ByteValues == {0, 1, 65, 127, 128, 255}
ByteSeqs   == SeqsUpTo(ByteValues, MaxDataLen)

\* characters of tokens given to the decoder: 'A' 'z' '/' '=' (alphabet),
\* '@' (next to 'A'), 0xC8 (not ASCII)
TokenChars == {65, 122, 47, 61, 64, 200}
\* whole groups put in front of the drawn tail: none, "QUJD", "QQ=="
TokenPrefixes == {<<>>, <<81, 85, 74, 68>>, <<81, 81, 61, 61>>}
Tokens == {p \o t : p \in TokenPrefixes, t \in SeqsUpTo(TokenChars, MaxTokenLen)}

Statuses == (-2 .. MaxStatus) \cup {101, 255, 256, 2147483647, -2147483647}

NotMapped == [spawn |-> "none", inline |-> "none"]

-----------------------------------------------------------------------------
(* DialogKind, DialogConfig and the projections: lib.rs 45-129 *)

NoneTimeout    == [some |-> FALSE, secs |-> 0]
SomeTimeout(n) == [some |-> TRUE,  secs |-> n]

BlankKind ==
    [tag |-> "", command |-> "", process |-> "", process_path |-> "",
     destination |-> "", port |-> 0, protocol |-> "",
     title |-> "", message |-> "", detail |-> ""]

PrivilegeEscalation(command) ==
    [BlankKind EXCEPT !.tag = "PrivilegeEscalation", !.command = command]

NetworkConnection(process, process_path, destination, port, protocol) ==
    [BlankKind EXCEPT !.tag = "NetworkConnection", !.process = process,
                      !.process_path = process_path, !.destination = destination,
                      !.port = port, !.protocol = protocol]

Generic(t, m, d) ==
    [BlankKind EXCEPT !.tag = "Generic", !.title = t, !.message = m, !.detail = d]

DialogConfig(kind, timeout_secs) == [kind |-> kind, timeout_secs |-> timeout_secs]

\* DialogConfig::title
title(config) ==
    IF config.kind.tag = "PrivilegeEscalation" THEN "Authorization Required"
    ELSE IF config.kind.tag = "NetworkConnection" THEN "Network Connection Request"
    ELSE config.kind.title

\* DialogConfig::subtitle
subtitle(config) ==
    IF config.kind.tag = "PrivilegeEscalation" THEN "An application wants to run as root:"
    ELSE IF config.kind.tag = "NetworkConnection" THEN "An application wants to connect to:"
    ELSE config.kind.message

\* detail with the path of the process shown in place of its name
detail_with_path(config) ==
    IF config.kind.tag = "PrivilegeEscalation" THEN config.kind.command
    ELSE IF config.kind.tag = "NetworkConnection"
    THEN config.kind.process_path \o " → " \o config.kind.destination \o ":"
         \o ToString(config.kind.port) \o " (" \o config.kind.protocol \o ")"
    ELSE config.kind.detail

\* DialogConfig::detail
detail(config) ==
    IF config.kind.tag = "PrivilegeEscalation" THEN config.kind.command
    ELSE IF config.kind.tag = "NetworkConnection"
    THEN config.kind.process \o " → " \o config.kind.destination \o ":"
         \o ToString(config.kind.port) \o " (" \o config.kind.protocol \o ")"
    ELSE config.kind.detail

\* the descriptors the callers pass
Kinds ==
    {PrivilegeEscalation("/usr/bin/pacman -Syu"),
     NetworkConnection("firefox", "/usr/lib/firefox/firefox", "api.anthropic.com", 443, "TCP"),
     Generic("Install update", "Allow the update?", "pkg 1.2")}
Timeouts == {NoneTimeout} \cup {SomeTimeout(n) : n \in 1..MaxTimeout}
Configs  == {DialogConfig(k, t) : k \in Kinds, t \in Timeouts}

\* the descriptors the projections are called on: those of the callers and
\* three more, with empty texts and the ends of the range of port: u16
ProjectKinds ==
    Kinds \cup
    {PrivilegeEscalation(""),
     NetworkConnection("curl", "/usr/bin/curl", "10.0.0.1", 0, "UDP"),
     NetworkConnection("", "", "::1", 65535, ""),
     Generic("", "", "")}
ProjectConfigs == {DialogConfig(k, t) : k \in ProjectKinds, t \in Timeouts}

NotProjected ==
    [config |-> DialogConfig(BlankKind, NoneTimeout),
     title |-> "", subtitle |-> "", detail |-> ""]

-----------------------------------------------------------------------------
(* Environments: lib.rs 132-137, 175-179, 221-225 *)

WAYLAND_ENV_VARS ==
    <<"WAYLAND_DISPLAY", "XDG_RUNTIME_DIR", "XDG_SESSION_TYPE", "DBUS_SESSION_BUS_ADDRESS">>

AllowList == {WAYLAND_ENV_VARS[i] : i \in DOMAIN WAYLAND_ENV_VARS}
EnvKeys   == AllowList \cup {"LD_PRELOAD"}
Unset     == "(unset)"
EmptyEnv  == [k \in EnvKeys |-> Unset]

\* WAYLAND_ENV_VARS.iter().filter_map(|&key| env.get(key).map(|val| (key, val)))
AllowedPairs(env) == {k \in AllowList : env[k] # Unset}

\* the environment after the pairs of `env` allowed through are set over `base`
SetAllowed(base, env) ==
    [k \in EnvKeys |-> IF k \in AllowedPairs(env) THEN env[k] ELSE base[k]]

-----------------------------------------------------------------------------
(* ui.rs: the process-wide cells, App and its event loop *)

\* OnceLock<DialogConfig>
OnceUnset == [set |-> FALSE, value |-> DialogConfig(BlankKind, NoneTimeout)]

\* CONFIG.set(config), its Err ignored: only the first set takes effect
OnceSet(cell, config) ==
    IF cell.set THEN cell ELSE [set |-> TRUE, value |-> config]

ExitCodeDefault == 1    \* AtomicI32::new(1)
ExitError       == 3    \* Err(_) => 3

\* messages given to App::update
KeyMsg(key) == [type |-> "Key", key |-> key]
TickMsg     == [type |-> "Tick", key |-> ""]
OtherMsg    == [type |-> "Other", key |-> ""]
Keys        == {"Enter", "Escape", "Space"}

\* App::subscription: are Ticks subscribed to
subscription(cell) == cell.set /\ cell.value.timeout_secs.some

\* update with a key press taken as a timeout once the timeout is reached
update_keys_until_timeout(message, cell, exitCell, elapsed) ==
    IF message.type \in {"Key", "Tick"} /\ cell.set /\ cell.value.timeout_secs.some
       /\ elapsed >= cell.value.timeout_secs.secs
    THEN [exit |-> 2, unlock |-> TRUE]
    ELSE IF message.type = "Key" /\ message.key = "Enter"
    THEN [exit |-> 0, unlock |-> TRUE]
    ELSE IF message.type = "Key" /\ message.key = "Escape"
    THEN [exit |-> 1, unlock |-> TRUE]
    ELSE [exit |-> exitCell, unlock |-> FALSE]

\* update with the Escape arm storing 1 and returning Task::none()
update_escape_no_unlock(message, cell, exitCell, elapsed) ==
    IF message.type = "Key" /\ message.key = "Enter"
    THEN [exit |-> 0, unlock |-> TRUE]
    ELSE IF message.type = "Key" /\ message.key = "Escape"
    THEN [exit |-> 1, unlock |-> FALSE]
    ELSE IF message.type = "Tick" /\ cell.set /\ cell.value.timeout_secs.some
            /\ elapsed >= cell.value.timeout_secs.secs
    THEN [exit |-> 2, unlock |-> TRUE]
    ELSE [exit |-> exitCell, unlock |-> FALSE]

\* update with every key but Enter taken as a refusal
update_any_key_denies(message, cell, exitCell, elapsed) ==
    IF message.type = "Key" /\ message.key = "Enter"
    THEN [exit |-> 0, unlock |-> TRUE]
    ELSE IF message.type = "Key"
    THEN [exit |-> 1, unlock |-> TRUE]
    ELSE IF message.type = "Tick" /\ cell.set /\ cell.value.timeout_secs.some
            /\ elapsed >= cell.value.timeout_secs.secs
    THEN [exit |-> 2, unlock |-> TRUE]
    ELSE [exit |-> exitCell, unlock |-> FALSE]

\* App::update: the value EXIT_CODE holds afterwards and whether UnLock is returned
update(message, cell, exitCell, elapsed) ==
    IF message.type = "Key" /\ message.key = "Enter"
    THEN [exit |-> 0, unlock |-> TRUE]
    ELSE IF message.type = "Key" /\ message.key = "Escape"
    THEN [exit |-> 1, unlock |-> TRUE]
    ELSE IF message.type = "Tick" /\ cell.set /\ cell.value.timeout_secs.some
            /\ elapsed >= cell.value.timeout_secs.secs
    THEN [exit |-> 2, unlock |-> TRUE]
    ELSE [exit |-> exitCell, unlock |-> FALSE]

NotShown == [title |-> "", subtitle |-> "", detail |-> "",
             timeout_secs |-> NoneTimeout, remaining |-> 0]

\* App::view: the texts put on screen, read from CONFIG
view(cell, elapsed) ==
    [title        |-> title(cell.value),
     subtitle     |-> subtitle(cell.value),
     detail       |-> detail(cell.value),
     timeout_secs |-> cell.value.timeout_secs,
     remaining    |-> IF cell.value.timeout_secs.some
                      THEN (IF elapsed >= cell.value.timeout_secs.secs THEN 0
                            ELSE cell.value.timeout_secs.secs - elapsed)
                      ELSE 0]

\* run with the result of the loop ignored: always EXIT_CODE.load(..)
RunReturnCodeNoErr(loopResult, exitCell) == exitCell

\* run: match result { Ok(()) => EXIT_CODE.load(..), Err(_) => 3 }
RunReturnCode(loopResult, exitCell) ==
    IF loopResult = "Ok" THEN exitCell ELSE ExitError

NoTick == [elapsed |-> -1, fired |-> FALSE]
NoKey  == [key |-> "", elapsed |-> -1]

IdleCall ==
    [pc         |-> "idle",      \* idle, init, loop, unlock, ended, done
     config     |-> DialogConfig(BlankKind, NoneTimeout),   \* the argument
     start_time |-> 0,           \* App.start_time
     tickDue    |-> FALSE,       \* the timer has fired, its Tick is not handled yet
     shown      |-> NotShown,    \* what view rendered last
     loopResult |-> "none",      \* what run_with returned
     exit_code  |-> -1,          \* what run returned
     result     |-> "none",      \* what show_dialog_inline returned
     enter      |-> FALSE,       \* update handled an Enter key press in this call
     lastTick   |-> NoTick,      \* the last Tick update handled: elapsed, stored 2?
     stored     |-> -1,          \* the code stored by the last step that returned UnLock
     lastKey    |-> NoKey]       \* the last Enter or Escape update handled, and when

Calls == 1..MaxCalls

Elapsed(c) == now - calls[c].start_time

InProgress(c) == calls[c].pc \notin {"idle", "done"}

-----------------------------------------------------------------------------
(* The variables of a part of the program that a specification does not run *)

CodecAtRest ==
    /\ mode = "off" /\ data = <<>> /\ token = <<>> /\ decoded = NoResult
    /\ status = 0 /\ mapped = NotMapped /\ codecPc = "off"
    /\ projected = NotProjected

SdIdle ==
    [pc |-> "idle", config |-> DialogConfig(BlankKind, NoneTimeout),
     env |-> EmptyEnv, parentEnv |-> EmptyEnv, uid |-> 0, gid |-> 0,
     sibling |-> FALSE, usrbin |-> FALSE,
     dialog_bin |-> "", config_bytes |-> <<>>, config_b64 |-> <<>>,
     spawns |-> 0, error |-> "", result |-> SpawnErr, ret |-> "none"]

NoChild ==
    [state |-> "none", bin |-> "", argv |-> <<>>, args |-> <<>>, uid |-> 0, gid |-> 0,
     code |-> NoCode]

SpawnAtRest == sd = SdIdle /\ child = NoChild

UiAtStart ==
    /\ CONFIG = OnceUnset
    /\ EXIT_CODE = ExitCodeDefault
    /\ now = 0
    /\ calls = [c \in Calls |-> IdleCall]
    /\ overlapped = FALSE

-----------------------------------------------------------------------------
(* show_dialog_inline, show_dialog_async and ui::run as steps of a call c *)

\* the environment maps the callers pass to the in-process runners
InlineEnvs ==
    {EmptyEnv,
     [EmptyEnv EXCEPT !["WAYLAND_DISPLAY"] = "wayland-1",
                      !["XDG_RUNTIME_DIR"] = "/run/user/1000",
                      !["LD_PRELOAD"] = "hook.so"]}

\* the environment of the process before any call
InlineProcEnv == [EmptyEnv EXCEPT !["WAYLAND_DISPLAY"] = "wayland-0"]

\* show_dialog_inline 219-225 (set_var of the allowed pairs) and
\* run 27 (CONFIG.set(config)); the call is then about to start the event loop
BeginInline(c, config, env) ==
    /\ calls[c].pc = "idle"
    /\ \A d \in Calls : d < c => calls[d].pc # "idle"
    /\ procEnv' = SetAllowed(procEnv, env)
    /\ CONFIG' = OnceSet(CONFIG, config)
    /\ calls' = [calls EXCEPT ![c] = [@ EXCEPT !.pc = "init", !.config = config]]
    /\ overlapped' = (overlapped \/ \E d \in Calls \ {c} : InProgress(d))
    /\ UNCHANGED <<EXIT_CODE, now>>

\* a direct call: the caller's thread is inside at most one call at a time
show_dialog_inline(c, config, env) ==
    /\ \A d \in Calls : ~InProgress(d)
    /\ BeginInline(c, config, env)
    /\ UNCHANGED <<codecVars, spawnVars>>

\* thread::spawn(move || show_dialog_inline(config, &env)): the worker runs
\* beside whatever calls are in progress
show_dialog_async(c, config, env) ==
    /\ BeginInline(c, config, env)
    /\ UNCHANGED <<codecVars, spawnVars>>

\* run_with(App::new): App::new takes start_time, the first view is rendered
AppNew(c) ==
    /\ calls[c].pc = "init"
    /\ calls' = [calls EXCEPT ![c] = [@ EXCEPT !.pc = "loop",
                                                !.start_time = now,
                                                !.shown = view(CONFIG, 0)]]
    /\ UNCHANGED <<CONFIG, EXIT_CODE, procEnv, now, overlapped>>
    /\ UNCHANGED <<codecVars, spawnVars>>

\* run_with fails before the surface is up (no compositor, no lock): Err
InitFault(c) ==
    /\ calls[c].pc = "init"
    /\ calls' = [calls EXCEPT ![c] = [@ EXCEPT !.pc = "ended", !.loopResult = "Err"]]
    /\ UNCHANGED <<CONFIG, EXIT_CODE, procEnv, now, overlapped>>
    /\ UNCHANGED <<codecVars, spawnVars>>

InLoop(c) == calls[c].pc \in {"loop", "unlock"}

\* the loop has returned: App and its surface are gone
Dropped(call) ==
    [call EXCEPT !.start_time = 0, !.tickDue = FALSE, !.shown = NotShown,
                 !.lastTick = NoTick, !.lastKey = NoKey]

\* App::update on message, then the re-render by App::view
Handle(c, message) ==
    LET eff == update(message, CONFIG, EXIT_CODE, Elapsed(c))
    IN  /\ InLoop(c)
        /\ EXIT_CODE' = eff.exit
        /\ calls' = [calls EXCEPT ![c] =
              [@ EXCEPT !.pc = IF eff.unlock THEN "unlock" ELSE @,
                        !.shown = view(CONFIG, Elapsed(c)),
                        !.enter = @ \/ (message.type = "Key" /\ message.key = "Enter"),
                        !.tickDue = IF message.type = "Tick" THEN FALSE ELSE @,
                        !.lastTick = IF message.type = "Tick"
                                     THEN [elapsed |-> Elapsed(c), fired |-> eff.unlock]
                                     ELSE @,
                        !.stored = IF eff.unlock THEN eff.exit ELSE @,
                        !.lastKey = IF message.type = "Key" /\ eff.unlock
                                    THEN [key |-> message.key, elapsed |-> Elapsed(c)]
                                    ELSE @]]
        /\ UNCHANGED <<CONFIG, procEnv, now, overlapped>>
        /\ UNCHANGED <<codecVars, spawnVars>>

\* Message::Event(Event::Keyboard(KeyPressed { key, .. }))
KeyPressed(c, key) == Handle(c, KeyMsg(key))

\* Message::Tick, delivered by the timer of the subscription
Tick(c) == calls[c].tickDue /\ Handle(c, TickMsg)

\* any other Message::Event
OtherEvent(c) == Handle(c, OtherMsg)

\* a second passes; iced::time::every(1s) fires in every loop subscribed to it.
\* The Tick of the second before has been handled (one Tick per second).
ClockAdvance ==
    /\ now < MaxTime
    /\ \E c \in Calls : InLoop(c)
    /\ \A c \in Calls : ~(InLoop(c) /\ calls[c].tickDue)
    /\ now' = now + 1
    /\ calls' = [c \in Calls |->
                    IF InLoop(c) /\ subscription(CONFIG)
                    THEN [calls[c] EXCEPT !.tickDue = TRUE]
                    ELSE calls[c]]
    /\ UNCHANGED <<CONFIG, EXIT_CODE, procEnv, overlapped>>
    /\ UNCHANGED <<codecVars, spawnVars>>

\* the collaborator acts on Message::UnLock: the loop returns Ok(())
LoopStop(c) ==
    /\ calls[c].pc = "unlock"
    /\ calls' = [calls EXCEPT ![c] = Dropped([@ EXCEPT !.pc = "ended", !.loopResult = "Ok"])]
    /\ UNCHANGED <<CONFIG, EXIT_CODE, procEnv, now, overlapped>>
    /\ UNCHANGED <<codecVars, spawnVars>>

\* the surface is closed or faults while the dialog waits: the loop returns
\* Ok(()) or Err without update having asked for it
SurfaceClosed(c, res) ==
    /\ calls[c].pc = "loop"
    /\ calls' = [calls EXCEPT ![c] = Dropped([@ EXCEPT !.pc = "ended", !.loopResult = res])]
    /\ UNCHANGED <<CONFIG, EXIT_CODE, procEnv, now, overlapped>>
    /\ UNCHANGED <<codecVars, spawnVars>>

\* run 34-37 and show_dialog_inline 228-233
RunReturn(c) ==
    /\ calls[c].pc = "ended"
    /\ LET code == RunReturnCode(calls[c].loopResult, EXIT_CODE)
       IN  calls' = [calls EXCEPT ![c] = [@ EXCEPT !.pc = "done",
                                                   !.exit_code = code,
                                                   !.result = InlineMap(code)]]
    /\ UNCHANGED <<CONFIG, EXIT_CODE, procEnv, now, overlapped>>
    /\ UNCHANGED <<codecVars, spawnVars>>

\* the steps of the surface between its start and the return of the loop
UiStep(c) ==
    \/ AppNew(c)
    \/ InitFault(c)
    \/ \E key \in Keys : KeyPressed(c, key)
    \/ Tick(c)
    \/ OtherEvent(c)
    \/ LoopStop(c)
    \/ \E res \in {"Ok", "Err"} : SurfaceClosed(c, res)

-----------------------------------------------------------------------------
(* Spec: one process, its calls of show_dialog_inline one after the other *)

Init ==
    /\ CodecAtRest
    /\ SpawnAtRest
    /\ UiAtStart
    /\ procEnv = InlineProcEnv

Next ==
    \/ \E c \in Calls, config \in Configs, env \in InlineEnvs :
          show_dialog_inline(c, config, env)
    \/ \E c \in Calls : AppNew(c)
    \/ \E c \in Calls : InitFault(c)
    \/ \E c \in Calls, key \in Keys : KeyPressed(c, key)
    \/ \E c \in Calls : Tick(c)
    \/ \E c \in Calls : OtherEvent(c)
    \/ \E c \in Calls : LoopStop(c)
    \/ \E c \in Calls, res \in {"Ok", "Err"} : SurfaceClosed(c, res)
    \/ \E c \in Calls : RunReturn(c)
    \/ ClockAdvance

Spec == Init /\ [][Next]_vars

(* SpecAsync: one process, its calls made through show_dialog_async *)

\* the descriptors given to the workers: one kind, every timeout
AsyncConfigs == {config \in Configs : config.kind.tag = "PrivilegeEscalation"}

NextAsync ==
    \/ \E c \in Calls, config \in AsyncConfigs, env \in InlineEnvs :
          show_dialog_async(c, config, env)
    \/ \E c \in Calls : AppNew(c)
    \/ \E c \in Calls : InitFault(c)
    \/ \E c \in Calls, key \in Keys : KeyPressed(c, key)
    \/ \E c \in Calls : Tick(c)
    \/ \E c \in Calls : OtherEvent(c)
    \/ \E c \in Calls : LoopStop(c)
    \/ \E c \in Calls, res \in {"Ok", "Err"} : SurfaceClosed(c, res)
    \/ \E c \in Calls : RunReturn(c)
    \/ ClockAdvance

SpecAsync == Init /\ [][NextAsync]_vars

-----------------------------------------------------------------------------
(* SpecCodec: base64_encode, base64_decode and the two exit-code mappings,  *)
(* applied to inputs drawn from bounded sets                                *)

InitCodec ==
    /\ SpawnAtRest
    /\ UiAtStart
    /\ procEnv = EmptyEnv
    /\ decoded = NoResult
    /\ mapped = NotMapped
    /\ codecPc = "start"
    /\ \/ /\ mode = "encode" /\ data \in ByteSeqs /\ token = <<>> /\ status = 0
          /\ projected = NotProjected
       \/ /\ mode = "decode" /\ data = <<>> /\ token \in Tokens /\ status = 0
          /\ projected = NotProjected
       \/ /\ mode = "map" /\ data = <<>> /\ token = <<>> /\ status \in Statuses
          /\ projected = NotProjected
       \/ /\ mode = "project" /\ data = <<>> /\ token = <<>> /\ status = 0
          /\ \E config \in ProjectConfigs :
                projected = [NotProjected EXCEPT !.config = config]

\* show_dialog 166-167: the token made of the bytes
Encode ==
    /\ mode = "encode" /\ codecPc = "start"
    /\ token' = base64_encode(data)
    /\ codecPc' = "encoded"
    /\ UNCHANGED <<mode, data, decoded, status, mapped, projected, spawnVars, uiVars>>

\* dialog.rs 18: the surface decodes the token it was given
Decode ==
    /\ \/ mode = "encode" /\ codecPc = "encoded"
       \/ mode = "decode" /\ codecPc = "start"
    /\ decoded' = base64_decode(token)
    /\ codecPc' = "decoded"
    /\ UNCHANGED <<mode, data, token, status, mapped, projected, spawnVars, uiVars>>

\* the two consumers of an exit status: show_dialog 184-189, show_dialog_inline 228-233
MapStatus ==
    /\ mode = "map" /\ codecPc = "start"
    /\ mapped' = [spawn  |-> ExitStatusMap(SomeCode(status)),
                  inline |-> InlineMap(status)]
    /\ codecPc' = "mapped"
    /\ UNCHANGED <<mode, data, token, decoded, status, projected, spawnVars, uiVars>>

\* DialogConfig::title, subtitle and detail called on the descriptor
Project ==
    /\ mode = "project" /\ codecPc = "start"
    /\ projected' = [projected EXCEPT !.title = title(projected.config),
                                      !.subtitle = subtitle(projected.config),
                                      !.detail = detail(projected.config)]
    /\ codecPc' = "projected"
    /\ UNCHANGED <<mode, data, token, decoded, status, mapped, spawnVars, uiVars>>

NextCodec == Encode \/ Decode \/ MapStatus \/ Project

SpecCodec == InitCodec /\ [][NextCodec]_vars

-----------------------------------------------------------------------------
(* SpecSpawn: show_dialog and the surface process it spawns                 *)

\* DialogConfig::to_bytes. The msgpack layout is rmp_serde's; the model keeps
\* that it is injective and that its length varies with the descriptor: an
\* array header, the kind (1 to 3 bytes), then nil or the seconds.
to_bytes(config) ==
    <<146>>
    \o (IF config.kind.tag = "PrivilegeEscalation" THEN <<0>>
        ELSE IF config.kind.tag = "NetworkConnection" THEN <<1, 1>>
        ELSE <<2, 2, 2>>)
    \o (IF config.timeout_secs.some THEN <<config.timeout_secs.secs>> ELSE <<192>>)

\* DialogConfig::from_bytes: the descriptor the bytes were made of, or Err
from_bytes(bytes) ==
    IF \E config \in Configs : to_bytes(config) = bytes
    THEN [ok |-> TRUE, config |-> CHOOSE config \in Configs : to_bytes(config) = bytes]
    ELSE [ok |-> FALSE, config |-> DialogConfig(BlankKind, NoneTimeout)]

\* the flag dialog.rs looks for and the first argument, the program's name
ConfigFlag  == "--config"
ProgramName == "session-dialog"

\* str::as_bytes of the words the arguments are made of (ASCII)
as_bytes(word) ==
    CASE word = ""         -> <<>>
      [] word = "--config" -> <<45, 45, 99, 111, 110, 102, 105, 103>>
      [] word = "kgDA"     -> <<107, 103, 68, 65>>
      [] word = "kgAB"     -> <<107, 103, 65, 66>>
      [] word = "QUJD"     -> <<81, 85, 74, 68>>
      [] word = "run"      -> <<114, 117, 110>>
      [] word = "as"       -> <<97, 115>>
      [] word = "root"     -> <<114, 111, 111, 116>>

\* the arguments a caller may give: the flag, the empty word, the tokens of
\* PrivilegeEscalation with None and with Some(1), a token of other bytes, and
\* the words of a command
ArgWords == {"--config", "", "kgDA", "kgAB", "QUJD", "run", "as", "root"}
Argvs    == {<<ProgramName>> \o rest : rest \in SeqsUpTo(ArgWords, MaxArgs)}

\* args.iter().position(|a| a == "--config"): the first index, 0 for None
RECURSIVE PositionFrom(_, _)
PositionFrom(args, i) ==
    IF i > Len(args) THEN 0
    ELSE IF args[i] = ConfigFlag THEN i
    ELSE PositionFrom(args, i + 1)

position(args) == PositionFrom(args, 1)

\* [String]::join(sep)
RECURSIVE join(_, _)
join(words, sep) ==
    IF words = <<>> THEN ""
    ELSE IF Len(words) = 1 THEN words[1]
    ELSE words[1] \o sep \o join(Tail(words), sep)

\* the command of legacy mode with the program's name left in (the skip(1) lost)
legacy_command_all(args) == join(args, " ")

\* args.iter().skip(1).cloned().collect::<Vec<_>>().join(" ")
legacy_command(args) == join(IF args = <<>> THEN <<>> ELSE Tail(args), " ")

ParseOk(config) == [ok |-> TRUE, config |-> config, error |-> ""]
ParseErr(e)     == [ok |-> FALSE, config |-> DialogConfig(BlankKind, NoneTimeout), error |-> e]

\* main with a flag that has no token taken as legacy mode
parse_args_fallback(args) ==
    LET pos == position(args)
    IN  IF pos > 0 /\ pos + 1 <= Len(args)
        THEN LET bytes  == base64_decode(as_bytes(args[pos + 1]))
                 parsed == from_bytes(bytes.val)
             IN  IF ~bytes.ok THEN ParseErr("failed to decode config")
                 ELSE IF ~parsed.ok THEN ParseErr("failed to parse config")
                 ELSE ParseOk(parsed.config)
        ELSE LET command == legacy_command(args)
             IN  IF command = "" THEN ParseErr("usage")
                 ELSE ParseOk(DialogConfig(PrivilegeEscalation(command), NoneTimeout))

\* main 13-43: the descriptor the arguments give, or the error main exits on
parse_args(args) ==
    LET pos == position(args)
    IN  IF pos > 0
        THEN IF pos + 1 <= Len(args)
             THEN LET bytes  == base64_decode(as_bytes(args[pos + 1]))
                      parsed == from_bytes(bytes.val)
                  IN  IF ~bytes.ok THEN ParseErr("failed to decode config")
                      ELSE IF ~parsed.ok THEN ParseErr("failed to parse config")
                      ELSE ParseOk(parsed.config)
             ELSE ParseErr("--config requires an argument")
        ELSE LET command == legacy_command(args)
             IN  IF command = "" THEN ParseErr("usage")
                 ELSE ParseOk(DialogConfig(PrivilegeEscalation(command), NoneTimeout))

\* the environment maps given to show_dialog: two allowed keys and one that is
\* not, each present or absent
SpawnEnvs ==
    {env \in [EnvKeys -> {Unset, "user"}] :
        env["XDG_SESSION_TYPE"] = Unset /\ env["DBUS_SESSION_BUS_ADDRESS"] = Unset}

\* the environment of the process that calls show_dialog
ParentEnvs ==
    {EmptyEnv,
     [EmptyEnv EXCEPT !["XDG_RUNTIME_DIR"] = "/run/user/0",
                      !["LD_PRELOAD"] = "daemon.so"]}

\* Command: the child inherits the calling process's environment; envs() sets
\* the allowed pairs of `env` over it
CommandEnv(parentEnv, env) == SetAllowed(parentEnv, env)

\* show_dialog 159-163
DialogBin(sibling) == IF sibling THEN "session-dialog" ELSE "/usr/bin/session-dialog"

InitSpawn ==
    /\ CodecAtRest
    /\ UiAtStart
    /\ procEnv = EmptyEnv
    /\ child = NoChild
    /\ \E config \in Configs, env \in SpawnEnvs, parentEnv \in ParentEnvs,
          sibling \in BOOLEAN, usrbin \in BOOLEAN :
          sd = [SdIdle EXCEPT !.config = config, !.env = env, !.parentEnv = parentEnv,
                              !.uid = 1000, !.gid = 1000,
                              !.sibling = sibling, !.usrbin = usrbin]

\* show_dialog 159-180: find the binary, encode, spawn. fault is what the
\* system does to the spawn: nothing, a refused setuid/setgid, a failed fork
ShowDialogSpawn(fault) ==
    LET bin    == DialogBin(sd.sibling)
        exists == sd.sibling \/ sd.usrbin
        bytes  == to_bytes(sd.config)
        b64    == base64_encode(bytes)
        call   == [sd EXCEPT !.dialog_bin = bin, !.config_bytes = bytes,
                             !.config_b64 = b64, !.spawns = @ + 1]
    IN  /\ sd.pc = "idle"
        /\ IF exists /\ fault = "none"
           THEN /\ sd' = [call EXCEPT !.pc = "waiting"]
                /\ child' = [state |-> "main", bin |-> bin,
                             argv |-> <<bin, ConfigFlag>>, args |-> b64,
                             uid |-> sd.uid, gid |-> sd.gid, code |-> NoCode]
                /\ procEnv' = CommandEnv(sd.parentEnv, sd.env)
           ELSE /\ sd' = [call EXCEPT !.pc = "matching", !.result = SpawnErr,
                                      !.error = IF exists THEN fault ELSE "enoent"]
                /\ UNCHANGED <<child, procEnv>>
        /\ UNCHANGED <<codecVars, CONFIG, EXIT_CODE, now, calls, overlapped>>

\* dialog.rs 13-47 with --config <token>: decode, parse, run_dialog -> ui::run
ChildMain ==
    LET bytes  == base64_decode(child.args)
        parsed == from_bytes(bytes.val)
    IN  /\ child.state = "main"
        /\ IF bytes.ok /\ parsed.ok
           THEN /\ child' = [child EXCEPT !.state = "ui"]
                /\ CONFIG' = OnceSet(CONFIG, parsed.config)
                /\ calls' = [calls EXCEPT ![1] = [@ EXCEPT !.pc = "init",
                                                          !.config = parsed.config]]
           ELSE /\ child' = [child EXCEPT !.state = "exited", !.code = SomeCode(ExitError)]
                /\ UNCHANGED <<CONFIG, calls>>
        /\ UNCHANGED <<codecVars, sd, EXIT_CODE, procEnv, now, overlapped>>

\* the surface at work in the child, an event or a second at a time
ChildUi ==
    /\ child.state = "ui"
    /\ UiStep(1) \/ ClockAdvance

\* run 34-37 and run_dialog 200-201: std::process::exit(exit_code)
ChildExit ==
    /\ child.state = "ui"
    /\ calls[1].pc = "ended"
    /\ LET code == RunReturnCode(calls[1].loopResult, EXIT_CODE)
       IN  /\ calls' = [calls EXCEPT ![1] = [@ EXCEPT !.pc = "done", !.exit_code = code]]
           /\ child' = [child EXCEPT !.state = "exited", !.code = SomeCode(code)]
    /\ UNCHANGED <<codecVars, sd, CONFIG, EXIT_CODE, procEnv, now, overlapped>>

\* the child is ended by a signal: its status has no exit code
ChildKilled ==
    /\ child.state \in {"main", "ui"}
    /\ child' = [child EXCEPT !.state = "killed", !.code = NoCode]
    /\ UNCHANGED <<codecVars, sd, uiVars>>

\* Command::status() returns once the child has ended
ShowDialogWait ==
    /\ sd.pc = "waiting"
    /\ child.state \in {"exited", "killed"}
    /\ sd' = [sd EXCEPT !.pc = "matching", !.result = SpawnOk(child.code)]
    /\ UNCHANGED <<codecVars, child, uiVars>>

\* show_dialog 182-192
ShowDialogReturn ==
    /\ sd.pc = "matching"
    /\ sd' = [sd EXCEPT !.pc = "returned", !.ret = SpawnResultMap(sd.result)]
    /\ UNCHANGED <<codecVars, child, uiVars>>

NextSpawn ==
    \/ \E fault \in {"none", "eperm", "eagain"} : ShowDialogSpawn(fault)
    \/ ChildMain
    \/ ChildUi
    \/ ChildExit
    \/ ChildKilled
    \/ ShowDialogWait
    \/ ShowDialogReturn

SpecSpawn == InitSpawn /\ [][NextSpawn]_vars

-----------------------------------------------------------------------------
(* SpecSurface: the session-dialog binary started with the arguments argv     *)

InitSurface ==
    /\ CodecAtRest
    /\ UiAtStart
    /\ procEnv = EmptyEnv
    /\ sd = SdIdle
    /\ \E argv \in Argvs :
          child = [NoChild EXCEPT !.state = "main", !.bin = ProgramName, !.argv = argv]

\* dialog.rs main 10-46: the descriptor of the arguments, then run_dialog ->
\* ui::run (CONFIG.set), or exit(3)
SurfaceMain ==
    LET parsed == parse_args(child.argv)
    IN  /\ child.state = "main"
        /\ IF parsed.ok
           THEN /\ child' = [child EXCEPT !.state = "ui"]
                /\ CONFIG' = OnceSet(CONFIG, parsed.config)
                /\ calls' = [calls EXCEPT ![1] = [@ EXCEPT !.pc = "init",
                                                          !.config = parsed.config]]
           ELSE /\ child' = [child EXCEPT !.state = "exited", !.code = SomeCode(ExitError)]
                /\ UNCHANGED <<CONFIG, calls>>
        /\ UNCHANGED <<codecVars, sd, EXIT_CODE, procEnv, now, overlapped>>

NextSurface ==
    \/ SurfaceMain
    \/ ChildUi
    \/ ChildExit

SpecSurface == InitSurface /\ [][NextSurface]_vars

-----------------------------------------------------------------------------
(* Properties *)

\* the characters the transport alphabet is made of: A-Z a-z 0-9 + / =
TransportChars == (65..90) \cup (97..122) \cup (48..57) \cup {43, 47, 61}

\* C1: base64_decode(base64_encode(b)) = Ok(b) for every byte sequence b, the
\* empty one and every length modulo 3 included (SpecCodec).
C1_RoundTrip ==
    (mode = "encode" /\ codecPc = "decoded") => decoded = Ok(data)

\* C2: the environment of the spawned child holds exactly the allow-listed
\* keys present in the map given to show_dialog, with the map's values, and no
\* variable of the calling process (SpecSpawn).
C2_ChildEnvOnlyAllowList ==
    child.state # "none" =>
        \A k \in EnvKeys :
            procEnv[k] = IF k \in AllowList /\ sd.env[k] # Unset THEN sd.env[k] ELSE Unset

\* C3: a call of ui::run during which update handled no Enter key press
\* returns 1, 2 or 3, never 0, and its caller never gets Confirmed; also for a
\* second or later call in the same process (Spec).
C3_NoEnterNeverConfirmed ==
    \A c \in Calls :
        (calls[c].pc = "done" /\ ~calls[c].enter) =>
            /\ calls[c].exit_code \in {1, 2, 3}
            /\ calls[c].result # "Confirmed"

\* C4: show_dialog and show_dialog_inline map every integer status alike:
\* 0 to Confirmed, 1 to Denied, 2 to Timeout, anything else to Error; Confirmed
\* comes from status 0 only (SpecCodec).
C4_ExitMappingTotal ==
    codecPc = "mapped" =>
        /\ mapped.spawn \in DialogResult
        /\ mapped.inline = mapped.spawn
        /\ (status = 0 => mapped.spawn = "Confirmed")
        /\ (status = 1 => mapped.spawn = "Denied")
        /\ (status = 2 => mapped.spawn = "Timeout")
        /\ (status \notin {0, 1, 2} => mapped.spawn = "Error")
        /\ (mapped.spawn = "Confirmed" => status = 0)

\* a status outside 0..2 has been mapped
C4_Witness == codecPc = "mapped" /\ status \notin {0, 1, 2} /\ mapped.inline = "Error"

\* C5: when the child ends by a signal, without an exit code, show_dialog
\* returns Error, whatever the surface had done by then (SpecSpawn).
C5_KilledChildIsError ==
    (sd.pc = "returned" /\ child.state = "killed") => sd.ret = "Error"

\* the child was killed while its dialog was waiting for input, and show_dialog
\* has returned
C5_Witness ==
    sd.pc = "returned" /\ child.state = "killed" /\ calls[1].pc = "loop"

C7_DecodeRejects ==
    codecPc = "decoded" =>
        /\ (Len(token) % 4 # 0 \/ \E i \in DOMAIN token : token[i] \notin TransportChars)
              => (~decoded.ok /\ decoded.val = <<>>)
        /\ (token = <<>> => decoded = Ok(<<>>))

\* a token of whole groups with one byte outside the alphabet has been rejected
C7_Witness ==
    /\ codecPc = "decoded" /\ mode = "decode"
    /\ Len(token) = 8
    /\ \E i \in DOMAIN token : token[i] \notin TransportChars
    /\ ~decoded.ok

\* C8: with timeout_secs = Some(T) in the descriptor of the call and one Tick
\* a second, a Tick ends the run with exit code 2 exactly when the whole
\* seconds elapsed since App::new are >= T: no Tick with elapsed < T ends it,
\* and the first Tick with elapsed >= T does (Spec).
C8_TimeoutFiresAtBound ==
    \A c \in Calls :
        (InLoop(c) /\ calls[c].config.timeout_secs.some /\ calls[c].lastTick.elapsed >= 0) =>
            (calls[c].lastTick.fired <=>
                (calls[c].lastTick.elapsed >= calls[c].config.timeout_secs.secs))

\* C9: what a call displays and the timeout it uses are those of the
\* descriptor passed to that call, also for the second and later calls (Spec).
C9_DescriptorDeterminesDisplay ==
    \A c \in Calls :
        InLoop(c) =>
            /\ calls[c].shown.title = title(calls[c].config)
            /\ calls[c].shown.subtitle = subtitle(calls[c].config)
            /\ calls[c].shown.detail = detail(calls[c].config)
            /\ calls[c].shown.timeout_secs = calls[c].config.timeout_secs
            /\ CONFIG.value = calls[c].config

\* C10: of two show_dialog_async calls whose workers overlap, a handle yields
\* Confirmed only if its own surface handled an Enter key press: a Confirm on
\* one dialog does not make the other handle yield Confirmed (SpecAsync).
C10_WorkersIsolated ==
    \A c \in Calls :
        (overlapped /\ calls[c].pc = "done" /\ calls[c].result = "Confirmed")
            => calls[c].enter

\* C11: the surface exits with code 3, its dialog never started, when the
\* --config found has no argument after it, when the token does not decode,
\* when the decoded bytes are no descriptor, and when there is no --config and
\* the arguments after the program name join to the empty string; show_dialog
\* maps that status to Error, not to Confirmed or Denied (SpecSurface).
C11_BadArgumentsExit3 ==
    LET argv    == child.argv
        flagAt  == {i \in DOMAIN argv : argv[i] = "--config"}
        first   == CHOOSE i \in flagAt : \A j \in flagAt : i <= j
        noToken == flagAt # {} /\ first = Len(argv)
        decoded_ == base64_decode(as_bytes(argv[first + 1]))
        badToken == flagAt # {} /\ first < Len(argv) /\ ~decoded_.ok
        badBytes == flagAt # {} /\ first < Len(argv) /\ decoded_.ok
                    /\ ~from_bytes(decoded_.val).ok
        noCommand == flagAt = {} /\ (Len(argv) <= 1 \/ (Len(argv) = 2 /\ argv[2] = ""))
    IN  (child.state # "main" /\ (noToken \/ badToken \/ badBytes \/ noCommand)) =>
            /\ child.state = "exited"
            /\ child.code = SomeCode(3)
            /\ calls[1] = IdleCall
            /\ ~CONFIG.set
            /\ SpawnResultMap(SpawnOk(child.code)) = "Error"

\* the surface was given a token that decodes to bytes that are no descriptor,
\* and has exited with code 3
C11_Witness ==
    /\ child.argv = <<"session-dialog", "--config", "QUJD">>
    /\ base64_decode(as_bytes("QUJD")) = Ok(<<65, 66, 67>>)
    /\ child.state = "exited"
    /\ child.code = SomeCode(3)

\* C12: with no argument equal to --config, the descriptor the surface runs
\* is PrivilegeEscalation { command } with timeout_secs = None, command being
\* the arguments after the program name, in order, with one space between
\* two of them: run, as, root give "run as root" (SpecSurface).
C12_LegacyCommand ==
    LET argv == child.argv
        RECURSIVE spaced(_)
        spaced(n) == IF n <= 1 THEN ""
                     ELSE IF n = 2 THEN argv[2]
                     ELSE spaced(n - 1) \o " " \o argv[n]
    IN  (child.state # "main" /\ calls[1].pc # "idle"
         /\ \A i \in DOMAIN argv : argv[i] # "--config") =>
            /\ calls[1].config.kind = PrivilegeEscalation(spaced(Len(argv)))
            /\ calls[1].config.timeout_secs = NoneTimeout
            /\ CONFIG.set /\ CONFIG.value = calls[1].config
            /\ (argv = <<"session-dialog", "run", "as", "root">>
                    => calls[1].config.kind.command = "run as root")

\* the dialog of the arguments run, as, root is on screen
C12_Witness ==
    /\ child.argv = <<"session-dialog", "run", "as", "root">>
    /\ calls[1].pc = "loop"
    /\ calls[1].shown.detail = "run as root"
    /\ ~calls[1].shown.timeout_secs.some

\* C13: title, subtitle and detail give a value for each of the three kinds,
\* made of the descriptor alone: the two fixed titles or the Generic title, the
\* two fixed subtitles or the Generic message, and the command, the text
\* "{process} → {destination}:{port} ({protocol})" without process_path, or
\* the Generic detail (SpecCodec).
C13_Projections ==
    LET k == projected.config.kind
    IN  codecPc = "projected" =>
        /\ k.tag \in {"PrivilegeEscalation", "NetworkConnection", "Generic"}
        /\ k.tag = "PrivilegeEscalation" =>
              /\ projected.title = "Authorization Required"
              /\ projected.subtitle = "An application wants to run as root:"
              /\ projected.detail = k.command
        /\ k.tag = "NetworkConnection" =>
              /\ projected.title = "Network Connection Request"
              /\ projected.subtitle = "An application wants to connect to:"
              /\ projected.detail =
                    k.process \o " → " \o k.destination \o ":" \o ToString(k.port)
                    \o " (" \o k.protocol \o ")"
        /\ k.tag = "Generic" =>
              /\ projected.title = k.title
              /\ projected.subtitle = k.message
              /\ projected.detail = k.detail
        /\ k = NetworkConnection("firefox", "/usr/lib/firefox/firefox",
                                 "api.anthropic.com", 443, "TCP")
              => projected.detail = "firefox → api.anthropic.com:443 (TCP)"
        /\ k = NetworkConnection("", "", "::1", 65535, "")
              => projected.detail = " → ::1:65535 ()"

\* the projections of a NetworkConnection descriptor with a timeout were taken
C13_Witness ==
    /\ codecPc = "projected"
    /\ projected.config.kind.tag = "NetworkConnection"
    /\ projected.config.kind.process_path = "/usr/lib/firefox/firefox"
    /\ projected.config.timeout_secs.some
    /\ projected.detail = "firefox → api.anthropic.com:443 (TCP)"

\* C14: base64_encode(b) is standard padded base64 for every byte sequence
\* b: 4 * ceil(len(b) / 3) characters of A-Z a-z 0-9 + /, followed at the end
\* by two '=' when len(b) mod 3 = 1, by one when it is 2, by none when it is 0
\* (SpecCodec).
C14_StandardPadded ==
    LET n    == Len(data)
        len  == Len(token)
        pads == IF n % 3 = 1 THEN 2 ELSE IF n % 3 = 2 THEN 1 ELSE 0
    IN  (mode = "encode" /\ codecPc = "encoded") =>
            /\ len = 4 * ((n + 2) \div 3)
            /\ \A i \in 1..len :
                  IF i > len - pads THEN token[i] = PadChar
                  ELSE token[i] \in TransportChars \ {PadChar}

\* C15: once update has stored a terminal exit code in a run, no event that
\* update handles before the event loop stops changes EXIT_CODE: the outcome
\* is written once and the run returns the first terminal outcome (Spec).
C15_TerminalAbsorbing ==
    [][\A c \in Calls :
          (calls[c].pc = "unlock" /\ calls'[c].pc = "unlock") => EXIT_CODE' = EXIT_CODE]_vars

\* C16: while a dialog awaits input, update on a KeyPressed of Enter stores 0
\* and on one of Escape stores 1, each with UnLock; on any other key press and
\* on any other event that is not a Tick it leaves EXIT_CODE as it is and
\* returns no UnLock; EXIT_CODE becomes 0 only in a step that handles an Enter
\* key press (SpecSurface).
C16_KeyTransitions ==
    [][/\ \A c \in Calls :
            /\ (calls[c].pc = "loop" /\ KeyPressed(c, "Enter"))
                  => (EXIT_CODE' = 0 /\ calls'[c].pc = "unlock")
            /\ (calls[c].pc = "loop" /\ KeyPressed(c, "Escape"))
                  => (EXIT_CODE' = 1 /\ calls'[c].pc = "unlock")
            /\ (OtherEvent(c) \/ \E key \in Keys \ {"Enter", "Escape"} : KeyPressed(c, key))
                  => /\ EXIT_CODE' = EXIT_CODE
                     /\ calls'[c].pc = calls[c].pc
                     /\ calls'[c].stored = calls[c].stored
       /\ (EXIT_CODE' = 0 /\ EXIT_CODE # 0)
             => \E c \in Calls : KeyPressed(c, "Enter")]_vars

\* an Enter key press was handled in the awaiting state: 0 is stored and the
\* stop is requested
C16_Witness ==
    /\ calls[1].pc = "unlock"
    /\ calls[1].lastKey.key = "Enter"
    /\ calls[1].stored = 0
    /\ EXIT_CODE = 0

\* C17: when the loop of the rendering collaborator ends while no Enter,
\* Escape or timed-out Tick has been handled in the run, ui::run returns 3 and
\* show_dialog_inline returns Error, whether the loop returned an error or
\* returned normally (Spec).
C17_ClosedIsError ==
    \A c \in Calls :
        (calls[c].pc = "done" /\ calls[c].stored = -1) =>
            (calls[c].exit_code = 3 /\ calls[c].result = "Error")

\* C17, amended: in such a run, a loop that returns an error makes ui::run
\* return 3 and show_dialog_inline return Error; a loop that returns normally
\* makes ui::run return the value EXIT_CODE holds, never 3, so the result is
\* never Error: it is 1 and Denied when no run of the process so far has
\* stored a terminal code (Spec).
C17_ClosedOrFaulted ==
    \A c \in Calls :
        (calls[c].pc = "done" /\ calls[c].stored = -1) =>
            /\ calls[c].loopResult = "Err" =>
                  (calls[c].exit_code = 3 /\ calls[c].result = "Error")
            /\ calls[c].loopResult = "Ok" =>
                  /\ calls[c].exit_code \in {0, 1, 2}
                  /\ calls[c].result # "Error"
                  /\ (\A d \in Calls : d <= c => calls[d].stored = -1)
                        => (calls[c].exit_code = 1 /\ calls[c].result = "Denied")

\* the surface of the first call was closed while it awaited input, the loop
\* returned normally, and the call has returned Denied
C17_Witness ==
    /\ calls[1].pc = "done"
    /\ calls[1].stored = -1
    /\ calls[1].loopResult = "Ok"
    /\ calls[1].exit_code = 1
    /\ calls[1].result = "Denied"

\* C18: every step of update that stores a terminal exit code (Enter, Escape,
\* a Tick with the timeout reached) returns UnLock in that step, and update
\* returns UnLock in no other step, so EXIT_CODE changes only in a step that
\* requests the stop; the exit code read after a stop that update requested
\* is the one stored by the last step that requested it (SpecSurface).
C18_UnlockWithTerminalStore ==
    /\ [][\A c \in Calls :
            LET terminal == \/ KeyPressed(c, "Enter")
                            \/ KeyPressed(c, "Escape")
                            \/ /\ Tick(c)
                               /\ subscription(CONFIG)
                               /\ Elapsed(c) >= CONFIG.value.timeout_secs.secs
            IN  /\ terminal => /\ calls'[c].pc = "unlock"
                               /\ calls'[c].stored = EXIT_CODE'
                               /\ EXIT_CODE' \in {0, 1, 2}
                /\ (calls[c].pc = "loop" /\ calls'[c].pc = "unlock") => terminal
                /\ (InLoop(c) /\ EXIT_CODE' # EXIT_CODE) => terminal]_vars
    /\ [](\A c \in Calls :
            (calls[c].pc = "done" /\ calls[c].stored # -1) =>
                /\ calls[c].loopResult = "Ok"
                /\ calls[c].exit_code = calls[c].stored
                /\ child.code = SomeCode(calls[c].stored))

\* a Tick with the timeout reached stored 2 and requested the stop, and the
\* surface process has exited with code 2
C18_Witness ==
    /\ calls[1].pc = "done"
    /\ calls[1].stored = 2
    /\ calls[1].exit_code = 2
    /\ child.state = "exited"
    /\ child.code = SomeCode(2)

\* C19: Ticks are subscribed to exactly when the descriptor of the run has a
\* timeout_secs, and a run whose descriptor has timeout_secs = None never
\* ends with exit code 2, whatever events are delivered (Spec).
C19_NoTimeoutNoTick ==
    \A c \in Calls :
        /\ InLoop(c) => (subscription(CONFIG) <=> calls[c].config.timeout_secs.some)
        /\ (calls[c].pc = "done" /\ ~calls[c].config.timeout_secs.some)
              => calls[c].exit_code # 2

\* C20: with timeout_secs = Some(T), no Enter or Escape key press handled when
\* the seconds elapsed since the dialog was created are already >= T makes
\* the outcome Confirmed or Denied: from then on only Timeout is produced
\* (Spec).
C20_KeysOnlyBeforeBound ==
    \A c \in Calls :
        (InLoop(c) /\ calls[c].config.timeout_secs.some /\ calls[c].lastKey.key # "") =>
            calls[c].lastKey.elapsed < calls[c].config.timeout_secs.secs

\* C20, amended: the timeout T that update reads from CONFIG is enforced by
\* Ticks only. A Tick handled at elapsed >= T stores 2 and requests the stop,
\* a Tick handled earlier stores nothing; an Enter or Escape key press
\* handled at elapsed >= T, the loop still running, stores 0 or 1 and requests
\* the stop like one handled earlier (Spec).
C20_TimeoutEnforcedByTickOnly ==
    [][\A c \in Calls :
          LET some    == subscription(CONFIG)
              reached == some /\ Elapsed(c) >= CONFIG.value.timeout_secs.secs
          IN  /\ (Tick(c) /\ reached)
                    => (EXIT_CODE' = 2 /\ calls'[c].pc = "unlock" /\ calls'[c].stored = 2)
              /\ (Tick(c) /\ ~reached)
                    => (EXIT_CODE' = EXIT_CODE /\ calls'[c].pc = calls[c].pc
                        /\ calls'[c].stored = calls[c].stored)
              /\ (KeyPressed(c, "Enter") /\ reached)
                    => (EXIT_CODE' = 0 /\ calls'[c].pc = "unlock" /\ calls'[c].stored = 0)
              /\ (KeyPressed(c, "Escape") /\ reached)
                    => (EXIT_CODE' = 1 /\ calls'[c].pc = "unlock" /\ calls'[c].stored = 1)]_vars

\* an Enter key press handled when the timeout was already reached, and before
\* the Tick of that second, has stored 0 and requested the stop
C20_Witness ==
    \E c \in Calls :
        /\ calls[c].pc = "unlock"
        /\ subscription(CONFIG)
        /\ calls[c].lastKey.key = "Enter"
        /\ calls[c].lastKey.elapsed >= CONFIG.value.timeout_secs.secs
        /\ calls[c].tickDue
        /\ calls[c].stored = 0
        /\ EXIT_CODE = 0

\* C21: on a token of n groups of four characters of A-Z a-z 0-9 + / =,
\* base64_decode succeeds and takes '=' in any position of any group as the
\* 6-bit value 0: of the three bytes of the 24 bits of a group it returns the
\* first, the second unless the third character is '=', and the third unless
\* the fourth character is '=', so it returns 3n bytes less one for each such
\* third and each such fourth character; tokens that differ only in '=' for
\* 'A' before the third character of a group decode alike (SpecCodec).
C21_PadAnywhereIsZero ==
    LET n       == Len(token) \div 4
        val(ch) == IF ch = 61 THEN 0 ELSE (CHOOSE i \in 1..64 : ALPHABET[i] = ch) - 1
        bits(g) == ((val(token[4 * g - 3]) * 64 + val(token[4 * g - 2])) * 64
                    + val(token[4 * g - 1])) * 64 + val(token[4 * g])
        kept(g) == <<bits(g) \div 65536>>
                   \o (IF token[4 * g - 1] # 61 THEN <<(bits(g) \div 256) % 256>> ELSE <<>>)
                   \o (IF token[4 * g] # 61 THEN <<bits(g) % 256>> ELSE <<>>)
        RECURSIVE upTo(_)
        upTo(g) == IF g = 0 THEN <<>> ELSE upTo(g - 1) \o kept(g)
        third   == {g \in 1..n : token[4 * g - 1] = 61}
        fourth  == {g \in 1..n : token[4 * g] = 61}
        unpadded == [i \in DOMAIN token |->
                        IF token[i] = 61 /\ (i - 1) % 4 < 2 THEN 65 ELSE token[i]]
    IN  (codecPc = "decoded" /\ Len(token) % 4 = 0
         /\ \A i \in DOMAIN token : token[i] \in TransportChars) =>
            /\ decoded.ok
            /\ decoded.val = upTo(n)
            /\ Len(decoded.val) = 3 * n - Cardinality(third) - Cardinality(fourth)
            /\ decoded = base64_decode(unpadded)

\* a token of two groups has been decoded: "QQ==", then a group that begins
\* with '=' and has '=' as its third character but not as its fourth; it gave
\* 1 + 2 bytes, the same as the token with 'A' for the leading '='
C21_Witness ==
    /\ mode = "decode" /\ codecPc = "decoded"
    /\ Len(token) = 8
    /\ token[3] = 61 /\ token[4] = 61
    /\ token[5] = 61 /\ token[7] = 61 /\ token[8] # 61
    /\ decoded.ok
    /\ Len(decoded.val) = 3
    /\ decoded = base64_decode([token EXCEPT ![5] = 65])

=============================================================================
